---- MODULE Spec2Model ----
(***************************************************************************)
(* A model of linoleum: the History store (src/src/history.rs) and the     *)
(* key-dispatch loop of Editor::read with its rendering helpers            *)
(* (src/src/lib.rs).                                                       *)
(*                                                                         *)
(* A Rust String is modelled as a sequence of characters; every character  *)
(* has its UTF-8 width, so that the byte indices the code uses             *)
(* (String::len, insert, remove, insert_str) and the character indices it  *)
(* uses (chars().nth, take, skip, the Vec<char> of the boundary scans)     *)
(* stay the two different things they are in the code.                     *)
(***************************************************************************)
EXTENDS Integers, Sequences, FiniteSets, TLC

VARIABLES
    file,               \* the history backing file on disk
    history,            \* Editor.history : Option<History>
    ret,                \* what the last History operation returned
    pushed,             \* lines pushed since the History was constructed
    navlog,             \* up()/down() results since the index was last reset, while nothing is pushed
    loaded,             \* History.lines as History::new built them
    synced,             \* save() succeeded and no push happened since
    completion,         \* Editor.completion is Some
    pc,                 \* where Editor::read is
    rawMode,            \* the terminal's raw mode (process-wide)
    data,               \* read's local `data`
    cursor,             \* read's local `cursor`
    cursor_line,        \* read's local `cursor_line`
    num_lines,          \* read's local `num_lines`
    completion_length,  \* read's local `completion_length`
    completions,        \* read's local `completions`
    completion_index,   \* read's local `completion_index`
    word_start,         \* the start Tab passed to Completion::complete for the open panel
    typed,              \* the characters typed, while read has seen no other event
    key,                \* the event that ended read; "none" until read has ended
    result              \* what read returned

histVars == <<file, history, ret, pushed, navlog, loaded, synced>>
edVars == <<completion, pc, rawMode, data, cursor, cursor_line, num_lines,
            completion_length, completions, completion_index, word_start, typed, key, result>>
vars == <<file, history, ret, pushed, navlog, loaded, synced,
          completion, pc, rawMode, data, cursor, cursor_line, num_lines,
          completion_length, completions, completion_index, word_start, typed, key, result>>

---------------------------------------------------------------------------
(* Bounds of the model.                                                    *)

\* terminal::size().0, the terminal's column count
TermWidth == 3
\* the visible length of the prompt
PromptLen == 1
\* the largest max_lines a History is constructed with
MaxLines == 2
\* how many lines the caller pushes on one History
MaxPushes == 3
\* how many up()/down() calls are logged between two resets of the index
MaxNav == 5
\* the largest completion_index the selection keys are followed to
MaxIndex == 2

---------------------------------------------------------------------------
(* Strings.                                                                *)

\* the UTF-8 length of a character: String::len, insert and remove count bytes
Width(c) == IF c \in {"é", "É"} THEN 2 ELSE 1

RECURSIVE ByteLen(_)
\* String::len: the length in bytes
ByteLen(s) == IF s = <<>> THEN 0 ELSE Width(Head(s)) + ByteLen(Tail(s))

\* the byte offset of the k-th character boundary (k characters precede it)
ByteOff(s, k) == ByteLen(SubSeq(s, 1, k))

\* str::is_char_boundary
IsCharBoundary(s, idx) == \E k \in 0..Len(s) : ByteOff(s, k) = idx

\* the number of characters before byte index idx, a character boundary
CharsBefore(s, idx) == CHOOSE k \in 0..Len(s) : ByteOff(s, k) = idx

\* chars().take(n): the first n characters (all of them when n exceeds the count)
Take(s, n) == SubSeq(s, 1, IF n < Len(s) THEN n ELSE Len(s))

\* chars().skip(n): what follows the first n characters
Skip(s, n) == SubSeq(s, n + 1, Len(s))

\* char::to_uppercase().next()
ToUpper(c) == IF c = "a" THEN "A" ELSE IF c = "é" THEN "É" ELSE c

RECURSIVE Join(_)
\* [String]::join("\n")
Join(ls) ==
    IF ls = <<>> THEN <<>>
    ELSE IF Len(ls) = 1 THEN ls[1]
    ELSE ls[1] \o <<"\n">> \o Join(Tail(ls))

\* the index of the first "\n" of s, 0 when there is none
FirstNewline(s) ==
    IF \E i \in 1..Len(s) : s[i] = "\n"
    THEN CHOOSE i \in 1..Len(s) : s[i] = "\n" /\ \A j \in 1..(i - 1) : s[j] # "\n"
    ELSE 0

\* a line that ended in "\n" loses a "\r" before it
StripCR(l) == IF l # <<>> /\ l[Len(l)] = "\r" THEN SubSeq(l, 1, Len(l) - 1) ELSE l

RECURSIVE Lines(_)
\* str::lines(): split at "\n" (or "\r\n"); a final line needs no terminator, and
\* nothing follows the last terminator
Lines(s) ==
    IF s = <<>> THEN <<>>
    ELSE LET i == FirstNewline(s) IN
         IF i = 0 THEN <<s>>
         ELSE <<StripCR(SubSeq(s, 1, i - 1))>> \o Lines(SubSeq(s, i + 1, Len(s)))

---------------------------------------------------------------------------
(* History (src/src/history.rs).                                           *)

NoHistory == [some |-> FALSE, lines |-> <<>>, index |-> 0, max_lines |-> 0]
NoRet == [op |-> "", kind |-> "none", val |-> <<>>]

\* Vec::truncate(n): keeps the first n elements
Truncate(ls, n) == IF Len(ls) > n THEN SubSeq(ls, 1, n) ELSE ls

\* History::push that takes the index before it truncates
HistPushIndexFirst(h, l) ==
    [h EXCEPT !.lines = Truncate(Append(h.lines, l), h.max_lines),
              !.index = Len(h.lines) + 1]

\* History::push
HistPush(h, l) ==
    LET ls == Truncate(Append(h.lines, l), h.max_lines)
    IN  [h EXCEPT !.lines = ls, !.index = Len(ls)]

\* History::reset_index
HistResetIndex(h) == [h EXCEPT !.index = Len(h.lines)]

\* Vec::get(i).cloned(), i counted from 0
GetLine(ls, i) ==
    IF i < Len(ls) THEN [kind |-> "Some", val |-> ls[i + 1]]
    ELSE [kind |-> "None", val |-> <<>>]

\* History::up that wraps around to the newest entry at index 0
HistUpWrap(h) ==
    IF h.index > 0
    THEN [h |-> [h EXCEPT !.index = h.index - 1], out |-> GetLine(h.lines, h.index - 1)]
    ELSE IF h.lines # <<>>
    THEN [h |-> [h EXCEPT !.index = Len(h.lines) - 1],
          out |-> GetLine(h.lines, Len(h.lines) - 1)]
    ELSE [h |-> h, out |-> [kind |-> "None", val |-> <<>>]]

\* History::up: the new history and the returned Option<String>
HistUp(h) ==
    IF h.index > 0
    THEN [h |-> [h EXCEPT !.index = h.index - 1], out |-> GetLine(h.lines, h.index - 1)]
    ELSE [h |-> h, out |-> [kind |-> "None", val |-> <<>>]]

\* History::down
HistDown(h) ==
    IF h.index + 1 < Len(h.lines)
    THEN [h |-> [h EXCEPT !.index = h.index + 1], out |-> GetLine(h.lines, h.index + 1)]
    ELSE [h |-> h, out |-> [kind |-> "None", val |-> <<>>]]

\* History::new that does not tell NotFound from the other errors
HistNewFailsNotFound(f) == f.state \in {"denied", "unreadable", "missing"}

\* History::new: Err when the file cannot be opened (other than NotFound) or read
HistNewFails(f) == f.state \in {"denied", "unreadable"}

\* History::new: the History built from the file
HistNew(f, max) ==
    LET ls == IF f.state = "present" THEN Lines(f.content) ELSE <<>>
    IN  [some |-> TRUE, lines |-> ls, index |-> Len(ls), max_lines |-> max]

\* History::save: the file after a successful save
SavedFile(h) == [state |-> "present", content |-> Join(h.lines)]

---------------------------------------------------------------------------
(* The files a History is constructed from, and the lines a caller pushes. *)

FileContents ==
    { <<>>,
      <<"a">>,
      <<"a", "\n">>,
      <<"\n">>,
      <<"a", "\n", "b", "\n", "c">>,
      <<"a", " ", "-", "\n", "é">> }

FileChoices ==
    { [state |-> st, content |-> <<>>] : st \in {"missing", "denied", "unreadable"} }
    \cup { [state |-> "present", content |-> c] : c \in FileContents }

PushLines == { <<>>, <<"a">>, <<"b">> }

\* seq was typed, and read has seen no other event
OnlyTyped(seq) == [only |-> TRUE, seq |-> seq]
\* read has seen an event that is no typed character
NotOnlyTyped == [only |-> FALSE, seq |-> <<>>]

\* read's locals before read is called
EditorIdle ==
    /\ completion = FALSE
    /\ pc = "idle"
    /\ rawMode = FALSE
    /\ data = <<>>
    /\ cursor = 0
    /\ cursor_line = 0
    /\ num_lines = 0
    /\ completion_length = 0
    /\ completions = <<>>
    /\ completion_index = 0
    /\ word_start = 0
    /\ typed = OnlyTyped(<<>>)
    /\ key = "none"
    /\ result = [kind |-> "none", text |-> <<>>, err |-> ""]

\* no History constructed yet
HistoryIdle ==
    /\ history = NoHistory
    /\ ret = NoRet
    /\ pushed = <<>>
    /\ navlog = <<>>
    /\ loaded = <<>>
    /\ synced = FALSE

---------------------------------------------------------------------------
(* The History operations called directly (History is a public type).     *)

\* History::new(file_path, max_lines): the first construction, or a reload of what
\* this History saved
HNew(max) ==
    /\ ~history.some \/ synced
    /\ IF HistNewFails(file)
       THEN /\ history' = NoHistory
            /\ ret' = [op |-> "new", kind |-> "Err", val |-> <<>>]
            /\ loaded' = <<>>
       ELSE /\ history' = HistNew(file, max)
            /\ ret' = [op |-> "new", kind |-> "Ok", val |-> <<>>]
            /\ loaded' = HistNew(file, max).lines
    /\ pushed' = <<>>
    /\ navlog' = <<>>
    /\ synced' = FALSE
    /\ UNCHANGED file
    /\ UNCHANGED edVars

\* History::push(l)
HPush(l) ==
    /\ history.some
    /\ Len(pushed) < MaxPushes
    /\ history' = HistPush(history, l)
    /\ ret' = [op |-> "push", kind |-> "none", val |-> <<>>]
    /\ pushed' = Append(pushed, l)
    /\ navlog' = <<>>
    /\ synced' = FALSE
    /\ UNCHANGED <<file, loaded>>
    /\ UNCHANGED edVars

\* History::reset_index()
HResetIndex ==
    /\ history.some
    /\ history' = HistResetIndex(history)
    /\ ret' = [op |-> "reset_index", kind |-> "none", val |-> <<>>]
    /\ navlog' = <<>>
    /\ UNCHANGED <<file, pushed, loaded, synced>>
    /\ UNCHANGED edVars

\* History::up()
HUp ==
    /\ history.some
    /\ pushed = <<>> => Len(navlog) < MaxNav
    /\ history' = HistUp(history).h
    /\ ret' = [op |-> "up", kind |-> HistUp(history).out.kind, val |-> HistUp(history).out.val]
    /\ navlog' = IF pushed = <<>> THEN Append(navlog, ret') ELSE navlog
    /\ UNCHANGED <<file, pushed, loaded, synced>>
    /\ UNCHANGED edVars

\* History::down()
HDown ==
    /\ history.some
    /\ pushed = <<>> => Len(navlog) < MaxNav
    /\ history' = HistDown(history).h
    /\ ret' = [op |-> "down", kind |-> HistDown(history).out.kind,
               val |-> HistDown(history).out.val]
    /\ navlog' = IF pushed = <<>> THEN Append(navlog, ret') ELSE navlog
    /\ UNCHANGED <<file, pushed, loaded, synced>>
    /\ UNCHANGED edVars

\* History::save(): opening the file (truncate, create) or writing it may fail
HSave(fail) ==
    /\ history.some
    /\ file.state = "denied" => fail = "open"
    /\ IF fail = "open"
       THEN /\ UNCHANGED file
            /\ ret' = [op |-> "save", kind |-> "Err", val |-> <<>>]
            /\ UNCHANGED synced
       ELSE IF fail = "write"
       THEN /\ file' = [state |-> "present", content |-> <<>>]
            /\ ret' = [op |-> "save", kind |-> "Err", val |-> <<>>]
            /\ synced' = FALSE
       ELSE /\ file' = SavedFile(history)
            /\ ret' = [op |-> "save", kind |-> "Ok", val |-> <<>>]
            /\ synced' = TRUE
    /\ UNCHANGED <<history, pushed, navlog, loaded>>
    /\ UNCHANGED edVars

HistInit ==
    /\ file \in FileChoices
    /\ HistoryIdle
    /\ EditorIdle

HistNext ==
    \/ \E max \in 0..MaxLines : HNew(max)
    \/ \E l \in PushLines : HPush(l)
    \/ HResetIndex
    \/ HUp
    \/ HDown
    \/ \E fail \in {"none", "open", "write"} : HSave(fail)

HistSpec == HistInit /\ [][HistNext]_vars

---------------------------------------------------------------------------
(* Editor: the helpers of read (src/src/lib.rs).                           *)

Min(a, b) == IF a < b THEN a ELSE b

\* WORD_BREAKS, the default word_breaks of Editor::new
WORD_BREAKS ==
    { "-", "_", "=", "+", "[", "]", "{", "}", "(", ")", "<", ">", ",", ".", "/", "\\",
      "`", "'", "\"", ";", ":", "!", "@", "#", "$", "%", "^", "&", "*", "?", "|", "~", " " }

RECURSIVE scan(_, _, _, _, _, _)
\* the loop of find_space_boundary and find_word_boundary over chars: Vec<char>;
\* -1 when chars[i as usize] is out of bounds (a panic)
scan(chars, breaks, start, i, step, stop) ==
    IF i = stop THEN i
    ELSE LET j == i + step IN
         IF j < 0 \/ j >= Len(chars) THEN -1
         ELSE IF chars[j + 1] \in breaks
              THEN (IF start - j > 1 THEN j - step ELSE j)
              ELSE scan(chars, breaks, start, j, step, stop)

\* Editor::find_space_boundary
find_space_boundary(d, start, backwards) ==
    scan(d, {" "}, start, start,
         IF backwards THEN -1 ELSE 1,
         IF backwards THEN 0 ELSE ByteLen(d) - 1)

\* Editor::find_word_boundary
find_word_boundary(d, start, backwards) ==
    scan(d, WORD_BREAKS, start, start,
         IF backwards THEN -1 ELSE 1,
         IF backwards THEN 0 ELSE ByteLen(d) - 1)

\* AnsiStr::len of the text drawn (no highlighter set): its visible characters
AnsiLen(d) == Len(d)

RECURSIVE RedrawRows(_, _, _)
\* the continuation-row loop of redraw: the rows drawn, or -1 when the range
\* cap..ansi_str.len() is the same non-empty range again, so the loop never ends
RedrawRows(d, cap, rows) ==
    IF cap >= AnsiLen(d) THEN rows
    ELSE LET next == Min(ByteLen(d), TermWidth) IN
         IF rows > 0 /\ next = cap THEN -1
         ELSE RedrawRows(d, next, rows + 1)

\* cursor::MoveUp(m) / MoveDown(m) with *cursor_line -= m / += m
MoveBy(line, move_up) ==
    IF move_up > 0 THEN line - move_up
    ELSE IF move_up < 0 THEN line + (0 - move_up)
    ELSE line

\* read's locals and the history read works on; out: how the handler has ended so
\* so far; io: it has called the terminal; ovf: it has overflowed a u16, which a
\* build with overflow checks turns into a panic and any other build wraps
Locals ==
    [data |-> data, cursor |-> cursor, cursor_line |-> cursor_line,
     num_lines |-> num_lines, completion_length |-> completion_length,
     completions |-> completions, completion_index |-> completion_index,
     word_start |-> word_start, history |-> history,
     out |-> "ok", io |-> FALSE, ovf |-> FALSE]

\* Editor::redraw; when the row loop never ends, *num_lines += 1 overflows
redraw(st) ==
    IF st.out # "ok" THEN st
    ELSE LET data_length == ByteLen(st.data)
             length == data_length + PromptLen
             end == st.cursor + PromptLen
             rows == RedrawRows(st.data, Min(AnsiLen(st.data), TermWidth - PromptLen), 0)
         IN  IF length > TermWidth
             THEN IF rows = -1
                  THEN [st EXCEPT !.out = "hang", !.io = TRUE, !.ovf = TRUE]
                  ELSE [st EXCEPT !.num_lines = rows,
                                  !.cursor_line = MoveBy(rows, rows - (end \div TermWidth)),
                                  !.io = TRUE]
             ELSE IF length = TermWidth /\ st.cursor = data_length
             THEN [st EXCEPT !.num_lines = 1, !.cursor_line = 1, !.io = TRUE]
             ELSE [st EXCEPT !.num_lines = 0, !.cursor_line = 0, !.io = TRUE]

\* a move_to that moves within the row only (MoveToColumn, no MoveUp / MoveDown)
move_to_column(st) ==
    IF st.out # "ok" THEN st ELSE [st EXCEPT !.io = TRUE]

\* Editor::move_to
move_to(st) ==
    IF st.out # "ok" THEN st
    ELSE LET end == st.cursor + PromptLen IN
         [st EXCEPT !.cursor_line = MoveBy(st.cursor_line,
                                           st.cursor_line - (end \div TermWidth)),
                    !.io = TRUE]

\* Editor::clear_completions: num_lines - cursor_line is a u16 subtraction
clear_completions(st) ==
    IF st.out # "ok" \/ st.completion_length = 0 THEN st
    ELSE [st EXCEPT !.io = TRUE, !.ovf = st.ovf \/ st.cursor_line > st.num_lines]

\* Editor::show_completions, assigned to completion_length: the rows drawn
show_completions(st) ==
    IF st.out # "ok" THEN st
    ELSE IF st.completions = <<>> THEN [st EXCEPT !.completion_length = 0]
    ELSE [st EXCEPT !.completion_length = (Len(st.completions) + 1) \div 2,
                    !.io = TRUE, !.ovf = st.ovf \/ st.cursor_line > st.num_lines]

\* String::insert / String::insert_str at byte index idx; a panic when idx is no
\* character boundary
insert_str(st, idx, str) ==
    IF st.out # "ok" THEN st
    ELSE IF ~IsCharBoundary(st.data, idx) THEN [st EXCEPT !.out = "panic"]
    ELSE LET k == CharsBefore(st.data, idx) IN
         [st EXCEPT !.data = Take(st.data, k) \o str \o Skip(st.data, k)]

\* String::remove at byte index idx; a panic when idx is no character boundary or
\* is the end of the string
remove(st, idx) ==
    IF st.out # "ok" THEN st
    ELSE IF ~IsCharBoundary(st.data, idx) \/ idx >= ByteLen(st.data)
    THEN [st EXCEPT !.out = "panic"]
    ELSE LET k == CharsBefore(st.data, idx) IN
         [st EXCEPT !.data = Take(st.data, k) \o Skip(st.data, k + 1)]

\* cursor = boundary (a panic when the scan indexed out of bounds), then
\* data = data.chars().take(cursor).chain(data.chars().skip(old_cursor)).collect()
cut_to(st, boundary, old_cursor) ==
    IF st.out # "ok" THEN st
    ELSE IF boundary = -1 THEN [st EXCEPT !.out = "panic"]
    ELSE [st EXCEPT !.cursor = boundary,
                    !.data = Take(st.data, boundary) \o Skip(st.data, old_cursor)]

---------------------------------------------------------------------------
(* Editor: the handlers of read's match on key.code, as functions of read's *)
(* locals.                                                                 *)

\* completion_index = idx, clear_completions, show_completions, move_to: the
\* Left / Right / Up / Down arms while completion_length != 0
select(st, idx) ==
    move_to(show_completions(clear_completions([st EXCEPT !.completion_index = idx])))

\* KeyCode::Enter with completion_length != 0
enter_commit(st) ==
    LET old_cursor == st.cursor
        b == find_space_boundary(st.data, st.cursor, TRUE)
        start == IF b # -1 /\ b < Len(st.data) /\ st.data[b + 1] \in WORD_BREAKS
                 THEN b + 1 ELSE b
        st1 == cut_to(st, start, old_cursor)
        st2 == IF st1.out = "ok" /\ st.completion_index >= Len(st.completions)
               THEN [st1 EXCEPT !.out = "panic"] ELSE st1
        st3 == IF st2.out # "ok" THEN st2
               ELSE LET cand == st.completions[st.completion_index + 1]
                        ins == insert_str(st2, st2.cursor, cand)
                    IN  IF ins.out # "ok" THEN ins
                        ELSE [ins EXCEPT !.cursor = ins.cursor + ByteLen(cand)]
    IN  redraw(st3)

\* KeyCode::Backspace
backspace(st) ==
    IF st.cursor # 0
    THEN LET st1 == [st EXCEPT !.cursor = st.cursor - 1]
         IN  redraw(remove(st1, st1.cursor))
    ELSE st

\* KeyCode::Char(ch) without CONTROL
insert_char(st, ch, caps) ==
    LET c == IF caps THEN ToUpper(ch) ELSE ch
        ins == insert_str(st, st.cursor, <<c>>)
    IN  IF ins.out # "ok" THEN ins
        ELSE redraw([ins EXCEPT !.cursor = ins.cursor + 1])

\* KeyCode::Char('h') with CONTROL
ctrl_h(st) ==
    redraw(cut_to(clear_completions(st),
                  find_word_boundary(st.data, st.cursor, TRUE), st.cursor))

\* cursor = c (a panic when the scan indexed out of bounds), then move_to
cursor_to(st, c) ==
    IF c < 0 THEN [st EXCEPT !.out = "panic"]
    ELSE move_to([st EXCEPT !.cursor = c])

\* KeyCode::Left with a selection that is not floored at 0
left_unfloored(st, ctrl) ==
    IF st.completion_length # 0
    THEN select(st, st.completion_index - 1)
    ELSE IF ctrl THEN cursor_to(st, find_word_boundary(st.data, st.cursor, TRUE))
    ELSE IF st.cursor # 0 THEN cursor_to(st, st.cursor - 1)
    ELSE st

\* KeyCode::Left
left(st, ctrl) ==
    IF st.completion_length # 0
    THEN select(st, IF st.completion_index >= 1 THEN st.completion_index - 1 ELSE 0)
    ELSE IF ctrl THEN cursor_to(st, find_word_boundary(st.data, st.cursor, TRUE))
    ELSE IF st.cursor # 0 THEN cursor_to(st, st.cursor - 1)
    ELSE st

\* KeyCode::Right
right(st, ctrl) ==
    IF st.completion_length # 0
    THEN select(st, st.completion_index + 1)
    ELSE IF ctrl
    THEN LET b == find_word_boundary(st.data, st.cursor, FALSE)
         IN  cursor_to(st, IF b = -1 THEN -1 ELSE b + 1)
    ELSE IF st.cursor # ByteLen(st.data) THEN cursor_to(st, st.cursor + 1)
    ELSE st

\* data = line; cursor = data.len(); redraw
recall(st, h, line) ==
    redraw([st EXCEPT !.history = h, !.data = line, !.cursor = ByteLen(line)])

\* KeyCode::Up that recalls from the history whether the panel is open or not
up_recalls(st) ==
    IF st.history.some
    THEN LET r == HistUp(st.history) IN
         IF r.out.kind = "Some" THEN recall(st, r.h, r.out.val)
         ELSE [st EXCEPT !.history = r.h]
    ELSE st

\* KeyCode::Up
up(st) ==
    IF st.completion_length # 0
    THEN select(st, IF st.completion_index >= 2 THEN st.completion_index - 2 ELSE 0)
    ELSE IF st.history.some
    THEN LET r == HistUp(st.history) IN
         IF r.out.kind = "Some" THEN recall(st, r.h, r.out.val)
         ELSE [st EXCEPT !.history = r.h]
    ELSE st

\* KeyCode::Down
down(st) ==
    IF st.completion_length # 0
    THEN select(st, st.completion_index + 2)
    ELSE IF st.history.some
    THEN LET r == HistDown(st.history) IN
         IF r.out.kind = "Some" THEN recall(st, r.h, r.out.val)
         ELSE recall(st, r.h, <<>>)
    ELSE st

\* KeyCode::Tab; cands: what Completion::complete returns
tab(st, has_completion, cands) ==
    LET start == find_space_boundary(st.data, st.cursor, TRUE) IN
    IF start = -1 THEN [st EXCEPT !.out = "panic"]
    ELSE IF ~has_completion THEN st
    ELSE LET st1 == [st EXCEPT !.completions = cands, !.word_start = start]
         IN  move_to(show_completions(clear_completions(st1)))

\* the keys that leave the completion panel open
NavKeys == {"Tab", "Left", "Right", "Up", "Down"}

\* a panel close that forgets the rows drawn but keeps the selection
close_panel_keeps_index(st, code) ==
    IF st.out = "ok" /\ st.completion_length # 0 /\ code \notin NavKeys
    THEN [clear_completions(st) EXCEPT !.completion_length = 0, !.word_start = 0]
    ELSE st

\* after the match: any other key closes the completion panel
close_panel(st, code) ==
    IF st.out = "ok" /\ st.completion_length # 0 /\ code \notin NavKeys
    THEN [clear_completions(st) EXCEPT !.completion_length = 0, !.completion_index = 0,
                                       !.word_start = 0]
    ELSE st

---------------------------------------------------------------------------
(* Editor: construction, and read as one action per event.  Every call of  *)
(* the terminal can fail: a step's outcome "io" is a failed write, flush,  *)
(* queue or terminal::size of a drawing helper, "raw" a failed raw-mode    *)
(* toggle, "writeln" a failed final writeln!(stdout).                      *)

\* the keys typed (a character, and Shift xor Caps Lock), and the candidate lists
\* Completion::complete returns
TypedKeys == { <<"a", FALSE>>, <<"a", TRUE>>, <<" ", FALSE>>, <<"-", FALSE>>, <<"é", FALSE>> }

CandidateLists ==
    { <<>>,
      << <<"a">> >>,
      << <<"a", "a">>, <<"-">>, <<"é">> >> }

\* the files an Editor's history is read from
EditorFiles ==
    { [state |-> "missing", content |-> <<>>],
      [state |-> "denied", content |-> <<>>],
      [state |-> "present", content |-> <<"a", "\n", "é", " ">>] }

Ok(kind, text) == [kind |-> kind, text |-> text, err |-> ""]
Err(e) == [kind |-> "Err", text |-> <<>>, err |-> e]

\* Editor::new(prompt)
Init ==
    /\ file \in EditorFiles
    /\ HistoryIdle
    /\ EditorIdle

\* Editor::history(path, max_lines): self is consumed, and lost on an error
EditorHistory(max) ==
    /\ pc = "idle"
    /\ ~history.some
    /\ IF HistNewFails(file)
       THEN /\ pc' = "dropped"
            /\ ret' = [op |-> "new", kind |-> "Err", val |-> <<>>]
            /\ UNCHANGED <<history, loaded>>
       ELSE /\ pc' = pc
            /\ history' = HistNew(file, max)
            /\ ret' = [op |-> "new", kind |-> "Ok", val |-> <<>>]
            /\ loaded' = HistNew(file, max).lines
    /\ UNCHANGED <<file, pushed, navlog, synced, completion, rawMode, data, cursor,
                   cursor_line, num_lines, completion_length, completions,
                   completion_index, word_start, typed, key, result>>

\* Editor::completion(c)
EditorCompletion ==
    /\ pc = "idle"
    /\ ~completion
    /\ completion' = TRUE
    /\ UNCHANGED histVars
    /\ UNCHANGED <<pc, rawMode, data, cursor, cursor_line, num_lines, completion_length,
                   completions, completion_index, word_start, typed, key, result>>

\* read up to the loop: the prompt is written and flushed, raw mode enabled
ReadStart(fault) ==
    /\ pc = "idle"
    /\ IF fault = "none"
       THEN pc' = "loop" /\ rawMode' = TRUE /\ result' = result
       ELSE /\ pc' = "returned"
            /\ rawMode' = FALSE
            /\ result' = Err(IF fault = "io" THEN "io" ELSE "raw_mode")
    /\ UNCHANGED histVars
    /\ UNCHANGED <<completion, data, cursor, cursor_line, num_lines, completion_length,
                   completions, completion_index, word_start, typed, key>>

\* read is over (it returned, panicked or hangs in redraw): its locals are gone
DropLocals ==
    /\ data' = <<>>
    /\ cursor' = 0
    /\ cursor_line' = 0
    /\ num_lines' = 0
    /\ completion_length' = 0
    /\ completions' = <<>>
    /\ completion_index' = 0
    /\ word_start' = 0

\* how a handler that left read's locals as st can end: as st.out says; with a
\* panic where a build with overflow checks meets the overflow; with the error of
\* a terminal call that failed
Outcomes(st) ==
    {st.out} \cup (IF st.ovf THEN {"panic"} ELSE {}) \cup (IF st.io THEN {"io"} ELSE {})

\* the end of a handler that neither returns Ok nor breaks: st holds read's locals
\* after the match arm and the panel close that follows it
Continue(k, st, ty) ==
    \E o \in Outcomes(st) :
        /\ typed' = ty
        /\ key' = (IF o = "ok" THEN "none" ELSE k)
        /\ history' = st.history
        /\ pc' = (IF o = "ok" THEN "loop"
                  ELSE IF o = "panic" THEN "panicked"
                  ELSE IF o = "hang" THEN "hung" ELSE "returned")
        /\ result' = IF o = "io" THEN Err("io") ELSE result
        /\ IF o = "ok"
           THEN /\ data' = st.data
                /\ cursor' = st.cursor
                /\ cursor_line' = st.cursor_line
                /\ num_lines' = st.num_lines
                /\ completion_length' = st.completion_length
                /\ completions' = st.completions
                /\ completion_index' = st.completion_index
                /\ word_start' = st.word_start
           ELSE DropLocals
        /\ UNCHANGED <<file, ret, pushed, navlog, loaded, synced, completion, rawMode>>

\* event::read() returns an error, and read returns it with raw mode left as it is
EventErrorRawLeft(fault) ==
    /\ pc = "loop"
    /\ typed' = NotOnlyTyped
    /\ key' = "Error"
    /\ pc' = "returned"
    /\ rawMode' = rawMode
    /\ result' = Err(IF fault = "raw" THEN "raw_mode" ELSE "event")
    /\ DropLocals
    /\ UNCHANGED histVars
    /\ UNCHANGED completion

\* event::read() returns an error
EventError(fault) ==
    /\ pc = "loop"
    /\ typed' = NotOnlyTyped
    /\ key' = "Error"
    /\ pc' = "returned"
    /\ IF fault = "raw"
       THEN rawMode' = rawMode /\ result' = Err("raw_mode")
       ELSE rawMode' = FALSE /\ result' = Err("event")
    /\ DropLocals
    /\ UNCHANGED histVars
    /\ UNCHANGED completion

\* an event that is no key event (a resize, a mouse event)
EventNotKey ==
    /\ pc = "loop"
    /\ Continue("NotKey", Locals, NotOnlyTyped)

\* Enter with no completion panel: the loop is left and the line submitted
KeyEnterSubmit(fault) ==
    /\ pc = "loop"
    /\ completion_length = 0
    /\ typed' = typed
    /\ key' = "Enter"
    /\ pc' = "returned"
    /\ IF fault = "raw"
       THEN /\ rawMode' = rawMode
            /\ result' = Err("raw_mode")
            /\ UNCHANGED <<history, pushed>>
       ELSE /\ rawMode' = FALSE
            /\ history' = IF history.some
                          THEN HistPush(HistResetIndex(history), data) ELSE history
            /\ pushed' = IF history.some THEN Append(pushed, data) ELSE pushed
            /\ result' = IF fault = "writeln" THEN Err("io") ELSE Ok("Ok", data)
    /\ DropLocals
    /\ UNCHANGED <<file, ret, navlog, loaded, synced, completion>>

\* Enter with the completion panel open: the selected candidate is committed
KeyEnterCommit ==
    /\ pc = "loop"
    /\ completion_length # 0
    /\ Continue("Enter", close_panel(enter_commit(Locals), "Enter"), NotOnlyTyped)

KeyBackspace ==
    /\ pc = "loop"
    /\ Continue("Backspace", close_panel(backspace(Locals), "Backspace"), NotOnlyTyped)

\* a character without CONTROL
KeyChar(ch, caps) ==
    /\ pc = "loop"
    /\ Continue("Char", close_panel(insert_char(Locals, ch, caps), "Char"),
                IF typed.only
                THEN OnlyTyped(Append(typed.seq, IF caps THEN ToUpper(ch) ELSE ch))
                ELSE NotOnlyTyped)

\* Ctrl+H
KeyCtrlH ==
    /\ pc = "loop"
    /\ Continue("Ctrl+H", close_panel(ctrl_h(Locals), "Char"), NotOnlyTyped)

\* Ctrl with a character other than h, d and c
KeyCtrlOther ==
    /\ pc = "loop"
    /\ Continue("Ctrl+X", close_panel(clear_completions(Locals), "Char"), NotOnlyTyped)

\* Ctrl+D and Ctrl+C both returning Cancel whatever the buffer holds
exit_result_cancel(ch, d) == Ok("Cancel", <<>>)

\* what read returns on Ctrl+D and on Ctrl+C, d being the buffer
exit_result(ch, d) ==
    IF ch = "d" /\ d = <<>> THEN Ok("Quit", <<>>) ELSE Ok("Cancel", <<>>)

\* Ctrl+D and Ctrl+C: read returns
KeyCtrlExit(ch) ==
    /\ pc = "loop"
    /\ \E o \in (Outcomes(clear_completions(Locals)) \ {"ok"}) \cup {"none", "raw", "writeln"} :
        /\ typed' = NotOnlyTyped
        /\ key' = (IF ch = "d" THEN "Ctrl+D" ELSE "Ctrl+C")
        /\ pc' = IF o = "panic" THEN "panicked" ELSE "returned"
        /\ IF o \in {"panic", "io", "raw"}
           THEN /\ result' = IF o = "panic" THEN result
                             ELSE Err(IF o = "io" THEN "io" ELSE "raw_mode")
                /\ UNCHANGED <<rawMode, history>>
           ELSE /\ rawMode' = FALSE
                /\ history' = IF history.some THEN HistResetIndex(history) ELSE history
                /\ result' = IF o = "writeln" THEN Err("io")
                             ELSE exit_result(ch, data)
    /\ DropLocals
    /\ UNCHANGED <<file, ret, pushed, navlog, loaded, synced, completion>>

KeyLeft(ctrl) ==
    /\ pc = "loop"
    /\ Continue("Left", left(Locals, ctrl), NotOnlyTyped)

KeyRight(ctrl) ==
    /\ pc = "loop"
    /\ completion_length # 0 => completion_index + 1 <= MaxIndex
    /\ Continue("Right", right(Locals, ctrl), NotOnlyTyped)

KeyUp ==
    /\ pc = "loop"
    /\ Continue("Up", up(Locals), NotOnlyTyped)

KeyDown ==
    /\ pc = "loop"
    /\ completion_length # 0 => completion_index + 2 <= MaxIndex
    /\ Continue("Down", down(Locals), NotOnlyTyped)

KeyHome ==
    /\ pc = "loop"
    /\ Continue("Home", cursor_to(Locals, 0), NotOnlyTyped)

KeyEnd ==
    /\ pc = "loop"
    /\ Continue("End", cursor_to(Locals, ByteLen(data)), NotOnlyTyped)

KeyTab(cands) ==
    /\ pc = "loop"
    /\ Continue("Tab", tab(Locals, completion, cands), NotOnlyTyped)

\* any other key (Esc, Delete, a function key)
KeyOther ==
    /\ pc = "loop"
    /\ Continue("Other", close_panel(Locals, "Other"), NotOnlyTyped)

Next ==
    \/ EditorHistory(MaxLines)
    \/ EditorCompletion
    \/ \E fault \in {"none", "io", "raw"} : ReadStart(fault)
    \/ \E fault \in {"none", "raw"} : EventError(fault)
    \/ EventNotKey
    \/ \E fault \in {"none", "raw", "writeln"} : KeyEnterSubmit(fault)
    \/ KeyEnterCommit
    \/ KeyBackspace
    \/ \E k \in TypedKeys : KeyChar(k[1], k[2])
    \/ KeyCtrlH
    \/ KeyCtrlOther
    \/ \E ch \in {"d", "c"} : KeyCtrlExit(ch)
    \/ \E ctrl \in BOOLEAN : KeyLeft(ctrl)
    \/ \E ctrl \in BOOLEAN : KeyRight(ctrl)
    \/ KeyUp
    \/ KeyDown
    \/ KeyHome
    \/ KeyEnd
    \/ \E cands \in CandidateLists : KeyTab(cands)
    \/ KeyOther

Spec == Init /\ [][Next]_vars

---------------------------------------------------------------------------
(* Claims about the History store, checked under HistSpec.                 *)

\* the last n elements of s (all of s when it has fewer)
LastN(s, n) == IF Len(s) > n THEN SubSeq(s, Len(s) - n + 1, Len(s)) ELSE s

\* C4: starting from an empty history with capacity max_lines, once max_lines + k
\* lines (k >= 0) are pushed the history holds exactly the last max_lines pushed
\* lines, oldest first: the oldest is dropped, the newest kept.
C4_KeepsLastMaxLines ==
    (history.some /\ loaded = <<>> /\ Len(pushed) >= history.max_lines)
        => history.lines = LastN(pushed, history.max_lines)

\* what one up() or down() step does to the index and what it returns
C5_Step ==
    /\ ret'.op = "up" =>
          /\ history'.lines = history.lines
          /\ IF history.index > 0
             THEN /\ history'.index = history.index - 1
                  /\ ret'.kind = "Some"
                  /\ ret'.val = history.lines[history'.index + 1]
             ELSE /\ history'.index = 0
                  /\ ret'.kind = "None"
    /\ ret'.op = "down" =>
          /\ history'.lines = history.lines
          /\ IF history.index + 1 < Len(history.lines)
             THEN /\ history'.index = history.index + 1
                  /\ ret'.kind = "Some"
                  /\ ret'.val = history.lines[history'.index + 1]
             ELSE /\ history'.index = history.index
                  /\ ret'.kind = "None"

\* the calls up, up, up, up, down on the freshly loaded entries a, b, c
C5_ExampleCalls ==
    /\ loaded = << <<"a">>, <<"b">>, <<"c">> >>
    /\ pushed = <<>>
    /\ [i \in 1..Len(navlog) |-> navlog[i].op] = <<"up", "up", "up", "up", "down">>

\* C5: history navigation has no wraparound: up() with index > 0 decrements the
\* index and returns the entry there, up() at index 0 returns nothing and stays at
\* 0; down() with index + 1 < len increments and returns that entry, otherwise
\* returns nothing and leaves the index; on the freshly loaded a, b, c the calls
\* up, up, up, up, down return c, b, a, nothing, b.
C5_NoWraparound ==
    /\ [][C5_Step]_vars
    /\ [](C5_ExampleCalls =>
            /\ [i \in 1..5 |-> navlog[i].kind] = <<"Some", "Some", "Some", "None", "Some">>
            /\ [i \in 1..5 |-> navlog[i].val] = << <<"c">>, <<"b">>, <<"a">>, <<>>, <<"b">> >>)

\* C5's case: the five calls of the example were made
C5_Witness == C5_ExampleCalls /\ history.index = 1

\* C8: save() and then History::new on the same file gives back exactly the lines
\* the History held (no line holds a newline), the empty lines that Enter on an
\* empty buffer pushes included.
C8_SaveReloadRoundTrip ==
    [][(synced /\ loaded = <<>> /\ ret'.op = "new" /\ ret'.kind = "Ok")
          => history'.lines = history.lines]_vars

\* C9: History::new on a path with no file succeeds with no entries and index 0;
\* every other failure to open or read the file is returned as an error, and no
\* History is produced.
C9_MissingFileIsEmpty ==
    ret.op = "new" =>
        /\ file.state = "missing" =>
              /\ ret.kind = "Ok"
              /\ history.some
              /\ history.lines = <<>>
              /\ history.index = 0
        /\ file.state \in {"denied", "unreadable"} =>
              /\ ret.kind = "Err"
              /\ ~history.some

\* C9's case: a History was constructed on a path with no file
C9_Witness == ret.op = "new" /\ file.state = "missing" /\ history.some

\* C15: in every state of a History, after construction and after any sequence
\* of push, up, down and reset_index, 0 <= nav_index <= len(entries).
C15_IndexWithinEntries ==
    history.some => (0 <= history.index /\ history.index <= Len(history.lines))

\* C15's case: a push on a full History, which truncates before it sets the index
C15_Witness ==
    /\ history.some /\ ret.op = "push"
    /\ Len(loaded) + Len(pushed) > history.max_lines
    /\ history.index = Len(history.lines)

\* C16: in every state of a History, directly after construction from a backing
\* file of any length included, len(entries) <= max_lines.
C16_EntriesWithinMaxLines ==
    history.some => Len(history.lines) <= history.max_lines

---------------------------------------------------------------------------
(* Claims about Editor::read, checked under Spec.                          *)

\* C1: in every state reached by a sequence of key events inside read, the cursor
\* is within the buffer: 0 <= cursor <= len(text), text a sequence of codepoints.
C1_CursorWithinText ==
    pc = "loop" => (0 <= cursor /\ cursor <= Len(data))

\* read has returned one of its EditResult values
Returned(kind) == pc = "returned" /\ result.kind = kind

C3_TypedLineSubmitted ==
    (/\ history.some /\ history.max_lines >= 1 /\ loaded = <<>>
     /\ typed.only
     /\ pc \in {"returned", "panicked", "hung"}
     /\ result.kind # "Err")
        => /\ Returned("Ok")
           /\ result.text = typed.seq
           /\ history.lines = <<typed.seq>>

\* C6: whenever read returns (Ok, Cancel, Quit, or the error of an event read, of
\* a write or flush of redraw, move_to or the completion display, or of a
\* terminal-size query) raw mode has been disabled before the return.
C6_RawModeOffOnReturn ==
    (pc = "returned" /\ result.err # "raw_mode") => ~rawMode

\* C7: when reading the next event fails, read disables raw mode and only then
\* returns the error: no key handler has run, and no buffer is returned.
C7_EventErrorDisablesRaw ==
    /\ [](result.err = "event" => key = "Error")
    /\ [][(pc = "loop" /\ key' = "Error") =>
            /\ pc' = "returned"
            /\ result'.kind = "Err" /\ result'.text = <<>>
            /\ result'.err = "event" => (rawMode /\ ~rawMode')
            /\ result'.err # "event" => result'.err = "raw_mode"
            /\ history' = history /\ pushed' = pushed]_vars

\* C7's case: event::read() has failed and read has returned its error
C7_Witness == pc = "returned" /\ key = "Error" /\ result = Err("event") /\ ~rawMode

\* C10: whenever Enter is pressed while the completion panel is open, the
\* selected index is a valid index of the candidate list, after every sequence of
\* Tab, Left, Right, Up and Down: the commit never indexes out of range.
C10_SelectedIndexInRange ==
    [][KeyEnterCommit => completion_index < Len(completions)]_vars

\* C11: typing one printable character ch with the cursor at index c and no
\* completion panel gives a buffer one longer, with ch (upper-cased when Shift
\* xor Caps Lock) at index c, the other characters in their order, and cursor c+1.
C11_InsertAtCursor ==
    [][\A k \in TypedKeys :
         (completion_length = 0 /\ KeyChar(k[1], k[2]) /\ pc' # "returned") =>
            /\ pc' = "loop"
            /\ Len(data') = Len(data) + 1
            /\ cursor <= Len(data)
            /\ data'[cursor + 1] = (IF k[2] THEN ToUpper(k[1]) ELSE k[1])
            /\ Take(data', cursor) = Take(data, cursor)
            /\ Skip(data', cursor + 1) = Skip(data, cursor)
            /\ cursor' = cursor + 1]_vars

\* the indices before start at which text holds a delimiter
DelimsBefore(text, start) == {d \in 0..(start - 1) : text[d + 1] \in WORD_BREAKS}

\* the boundary the backward scan is to return: 0 with no delimiter before start,
\* the nearest delimiter's index d when d = start - 1, and d + 1 otherwise
BackwardBoundary(text, start) ==
    IF DelimsBefore(text, start) = {} THEN 0
    ELSE LET d == CHOOSE x \in DelimsBefore(text, start) :
                      \A y \in DelimsBefore(text, start) : y <= x
         IN  IF d = start - 1 THEN d ELSE d + 1

\* C12: find_word_boundary(text, start, backwards = true) returns d+1 when the
\* nearest delimiter before start is at d < start-1, d when it is at d = start-1,
\* and 0 when no delimiter precedes start; Ctrl+H (no completion panel open)
\* removes exactly the characters in [result, cursor) and sets the cursor to
\* result.
C12_CtrlHCutsToBoundary ==
    [][(completion_length = 0 /\ KeyCtrlH /\ pc' # "returned") =>
          /\ pc' = "loop"
          /\ cursor <= Len(data)
          /\ cursor' = BackwardBoundary(data, cursor)
          /\ data' = SubSeq(data, 1, cursor') \o SubSeq(data, cursor + 1, Len(data))]_vars

\* ceil(a / b) for a >= 0 and b > 0
CeilDiv(a, b) == (a + b - 1) \div b

\* C13: after a redraw with terminal width W, prompt length p < W and buffer
\* length n, p + n no multiple of W, num_lines is ceil((p + n) / W) - 1, the
\* number of continuation rows: the redraw ends, and read goes on with that
\* num_lines (stated for the buffers whose length is the same in characters and
\* in bytes).
C13_ContinuationRows ==
    /\ pc # "hung"
    /\ (pc = "loop" /\ ByteLen(data) = Len(data)
          /\ (PromptLen + Len(data)) % TermWidth # 0)
          => num_lines = CeilDiv(PromptLen + Len(data), TermWidth) - 1

\* C14: after every key event that read handles without ending, cursor_line is
\* (cursor + promptLen) div W, the row of the logical cursor, whether the handler
\* drew with redraw or with move_to.
C14_CursorLineIsCursorRow ==
    pc = "loop" => cursor_line = (cursor + PromptLen) \div TermWidth

\* C14's case: move_to has taken the cursor to the row below the one drawn last
C14_Witness ==
    /\ pc = "loop" /\ cursor_line = 1 /\ num_lines = 0
    /\ cursor_line = (cursor + PromptLen) \div TermWidth

\* C17: every completion query issued by Tab, the one that opens the panel and a
\* refresh while it is open, leaves selected_index = 0 when the new candidate
\* list is displayed, whatever Left, Right, Up and Down did before.
C17_TabResetsSelection ==
    [][((\E cands \in CandidateLists : KeyTab(cands))
          /\ completion /\ pc' = "loop" /\ completion_length' # 0)
         => completion_index' = 0]_vars

\* C18: Enter while the completion panel is open replaces exactly the range
\* [word_start, cursor) of the buffer, word_start being what the Tab query passed
\* to the completion, with candidates[selected_index]: what is before word_start
\* and from the old cursor on is unchanged, and the cursor ends at
\* word_start + len(candidate).
C18_CommitReplacesQueriedSpan ==
    [][(KeyEnterCommit /\ pc' = "loop" /\ completion_index < Len(completions)) =>
          LET cand == completions[completion_index + 1] IN
          /\ data' = Take(data, word_start) \o cand \o Skip(data, cursor)
          /\ cursor' = word_start + Len(cand)]_vars

\* C19: Enter in the Completing state never ends the session and never pushes to
\* the history: read stays in its loop with the panel closed (completion length
\* 0, selected_index 0), and only a later Enter in Editing submits.
C19_CommitKeepsSession ==
    [][(KeyEnterCommit /\ result'.kind # "Err") =>
          /\ pc' = "loop"
          /\ completion_length' = 0 /\ completion_index' = 0
          /\ history' = history /\ pushed' = pushed
          /\ result' = result]_vars

\* a key other than Tab, Left, Right, Up and Down is handled
OtherKeyStep ==
    \/ KeyEnterCommit
    \/ KeyBackspace
    \/ \E k \in TypedKeys : KeyChar(k[1], k[2])
    \/ KeyCtrlH
    \/ KeyCtrlOther
    \/ KeyOther

Floor0(n) == IF n < 0 THEN 0 ELSE n

\* C21: in the Completing state the selection moves as a grid of 2 columns: Left
\* sets selected_index to max(selected_index - 1, 0), Up to
\* max(selected_index - 2, 0), Right to selected_index + 1 and Down to
\* selected_index + 2; from 0, Left keeps it at 0.
C21_SelectionGrid ==
    [][(completion_length # 0 /\ pc' = "loop") =>
          /\ (\E ctrl \in BOOLEAN : KeyLeft(ctrl))
                => completion_index' = Floor0(completion_index - 1)
          /\ KeyUp => completion_index' = Floor0(completion_index - 2)
          /\ (\E ctrl \in BOOLEAN : KeyRight(ctrl))
                => completion_index' = completion_index + 1
          /\ KeyDown => completion_index' = completion_index + 2]_vars

\* C21's case: Right and Down have moved the selection of an open panel
C21_Witness == pc = "loop" /\ completion_length # 0 /\ completion_index = MaxIndex

\* Left, Right, Up or Down is handled, with or without Ctrl
ArrowKeyStep ==
    \/ \E ctrl \in BOOLEAN : KeyLeft(ctrl)
    \/ \E ctrl \in BOOLEAN : KeyRight(ctrl)
    \/ KeyUp
    \/ KeyDown

\* C22: in the Completing state Left, Right, Up and Down (with or without Ctrl)
\* change only selected_index: the buffer, the cursor, the candidate list and
\* the history index stay as they are, so there is no history recall and no
\* cursor motion while the panel is open.  (Stated by its contrapositive: a step
\* from the Completing state that changes one of them is no step of these keys.)
C22_ArrowsOnlyMoveSelection ==
    [][(completion_length # 0 /\ pc' = "loop"
          /\ ~(/\ data' = data /\ cursor' = cursor
               /\ completions' = completions /\ history' = history))
         => ~ArrowKeyStep]_vars

\* C22's case: the selection of an open panel was moved with a history to recall
\* from, and nothing was recalled
C22_Witness ==
    /\ pc = "loop" /\ completion_length # 0 /\ completion_index # 0
    /\ history.some /\ history.lines # <<>> /\ history.index = Len(history.lines)
    /\ data = <<>>

\* C23: Ctrl+Right in the Editing state is safe for every buffer and every cursor
\* in [0, len(text)], the empty buffer, the cursor at len(text) and a delimiter as
\* the last character included: the forward scan reads no index outside
\* [0, len(text) - 1] (it does not panic), and the cursor it gives, boundary + 1,
\* is at most len(text).
C23_CtrlRightSafe ==
    [][(completion_length = 0 /\ cursor <= Len(data) /\ KeyRight(TRUE)) =>
          /\ pc' # "panicked"
          /\ pc' = "loop" => cursor' <= Len(data')]_vars

\* what C24 says of a handler's redraw, st being read's locals after the handler:
\* when promptLen + len(text) is a positive multiple of W and the cursor is at
\* len(text), the redraw ends with cursor_line = (promptLen + len(text)) / W and
\* num_lines >= cursor_line (for the texts whose length is the same in
\* characters and in bytes)
ExtraRowForced(st) ==
    (/\ st.out \in {"ok", "hang"}
     /\ ByteLen(st.data) = Len(st.data)
     /\ (PromptLen + Len(st.data)) % TermWidth = 0
     /\ st.cursor = Len(st.data))
        => /\ st.out = "ok"
           /\ st.cursor_line = (PromptLen + Len(st.data)) \div TermWidth
           /\ st.num_lines >= st.cursor_line

\* C24: whenever promptLen + len(text) is a positive exact multiple of the
\* terminal width W and the cursor is at len(text), a redraw forces an extra row:
\* afterwards cursor_line = (promptLen + len(text)) / W and num_lines >=
\* cursor_line.  Checked on the redraws of a typed character and of a committed
\* completion.
C24_ExtraRowAtExactMultiple ==
    /\ [][\A k \in TypedKeys :
            (completion_length = 0 /\ KeyChar(k[1], k[2]) /\ pc' # "returned")
               => ExtraRowForced(insert_char(Locals, k[1], k[2]))]_vars
    /\ [][(KeyEnterCommit /\ pc' # "returned")
            => ExtraRowForced(enter_commit(Locals))]_vars

\* C25: every call of redraw terminates: for every buffer length, prompt length
\* p and terminal width W > p the continuation-row loop exits after finitely many
\* iterations, also when len(text) > W, so that every key event is followed by
\* the next event read: no step of read ends in the loop that never exits.
C25_RedrawTerminates ==
    [][pc = "loop" => pc' # "hung"]_vars

\* C26: in every state reached inside read, cursor_line <= num_lines, so that
\* num_lines - cursor_line in show_completions and clear_completions never
\* underflows (stated for the buffers whose length is the same in characters and
\* in bytes).
C26_CursorLineWithinRows ==
    (pc = "loop" /\ ByteLen(data) = Len(data)) => cursor_line <= num_lines

\* C27: after Down has moved past the newest history entry and cleared the
\* buffer, navigation is back in the not-recalling position: the next Up recalls
\* the newest entry, entries[len - 1], not the one before it.
C27_DownPastNewestResets ==
    [][(/\ completion_length = 0 /\ history.some /\ history.lines # <<>>
        /\ HistDown(history).out.kind = "None"
        /\ KeyDown /\ pc' = "loop")
         => /\ data' = <<>>
            /\ HistUp(history').out.kind = "Some"
            /\ HistUp(history').out.val = history'.lines[Len(history'.lines)]]_vars

====
